---- MODULE Spec2Model ----
(***************************************************************************)
(* Model of the numeric field controller InspectorNumber                   *)
(* (src/components/Editor/inspector/fields/InspectorNumber.tsx) and of the *)
(* change notifier it talks to.                                            *)
(*                                                                         *)
(* Numbers.  A JavaScript number is modelled as an exact decimal with      *)
(* DecimalDigits fractional digits: the record [t |-> "num", v |-> n]      *)
(* stands for n / Scale.  NaN and undefined are values of their own.       *)
(* Binary rounding noise of IEEE doubles (0.1 + 0.2) is outside the model; *)
(* everything else (parseFloat, toString, toFixed, Math.round, the         *)
(* comparisons with NaN) is computed the way JavaScript computes it.       *)
(*                                                                         *)
(* Strings.  A string is a sequence of one-character strings, so that      *)
(* parsing and formatting are real computations.                           *)
(***************************************************************************)
EXTENDS Integers, Sequences, FiniteSets, TLC

(***************************************************************************)
(* Bounds of the model.                                                    *)
(***************************************************************************)
DecimalDigits == 2
\* Pointer positions (pageY) are 0..MaxPageY.
MaxPageY == 1
\* At most this many mousemove listeners are attached to the document.
MaxListeners == 2
\* A drag is followed while object[property] is within MaxDrift of Base.
MaxDrift == 1

RECURSIVE Pow10(_)
Pow10(k) == IF k <= 0 THEN 1 ELSE 10 * Pow10(k - 1)

Scale == Pow10(DecimalDigits)

(***************************************************************************)
(* JavaScript values.                                                      *)
(***************************************************************************)
Num(n) == [t |-> "num", v |-> n]
NaN == [t |-> "nan", v |-> 0]
Undefined == [t |-> "undef", v |-> 0]
\* The bound object itself, as a notification target (compared by identity).
TheObject == [t |-> "object", v |-> 0]

\* i + h/100, for writing literals independently of Scale.
Dec(i, h) == Num(i * Scale + (h * Scale) \div 100)

IsNum(x) == x.t = "num"
TypeofNumber(x) == x.t \in {"num", "nan"}
IsNullish(x) == x.t = "undef"

\* a === b on primitives: NaN is not equal to anything, itself included.
StrictEq(a, b) == a.t # "nan" /\ b.t # "nan" /\ a = b

Abs(n) == IF n < 0 THEN -n ELSE n

\* a + b and a * b; anything that is not a finite number gives NaN.
JsAdd(a, b) == IF IsNum(a) /\ IsNum(b) THEN Num(a.v + b.v) ELSE NaN
\* k is an integer (a pixel difference), b a value.
JsMulInt(k, b) == IF IsNum(b) THEN Num(k * b.v) ELSE NaN

(***************************************************************************)
(* Strings.                                                                *)
(***************************************************************************)
Digits == <<"0", "1", "2", "3", "4", "5", "6", "7", "8", "9">>
DigitSet == {Digits[i] : i \in 1..10}
DigitChar(d) == Digits[d + 1]
DigitVal(ch) == CHOOSE d \in 0..9 : Digits[d + 1] = ch

RECURSIVE NatToStr(_)
NatToStr(n) == IF n < 10 THEN <<DigitChar(n)>>
               ELSE NatToStr(n \div 10) \o <<DigitChar(n % 10)>>

\* n written with exactly w digits (leading zeros).
RECURSIVE PadDigits(_, _)
PadDigits(n, w) == IF w = 0 THEN <<>>
                   ELSE PadDigits(n \div 10, w - 1) \o <<DigitChar(n % 10)>>

RECURSIVE StripZeros(_)
StripZeros(s) == IF s # <<>> /\ s[Len(s)] = "0"
                 THEN StripZeros(SubSeq(s, 1, Len(s) - 1)) ELSE s

\* String.prototype.indexOf for one character, 1-based; 0 when absent.
IndexOf(s, ch) == IF \E i \in 1..Len(s) : s[i] = ch
                  THEN CHOOSE i \in 1..Len(s) :
                         s[i] = ch /\ \A j \in 1..(i - 1) : s[j] # ch
                  ELSE 0

\* Number.prototype.toString().
NumberToString(x) ==
  IF ~IsNum(x) THEN <<"N", "a", "N">>
  ELSE LET a == Abs(x.v)
           frac == StripZeros(PadDigits(a % Scale, DecimalDigits))
       IN (IF x.v < 0 THEN <<"-">> ELSE <<>>)
          \o NatToStr(a \div Scale)
          \o (IF frac = <<>> THEN <<>> ELSE <<".">> \o frac)

\* Number.prototype.toFixed(p): rounds half away from zero, keeps p digits.
ToFixed(x, p) ==
  IF ~IsNum(x) THEN <<"N", "a", "N">>
  ELSE LET a == Abs(x.v)
           m == (2 * a * Pow10(p) + Scale) \div (2 * Scale)
       IN (IF x.v < 0 THEN <<"-">> ELSE <<>>)
          \o NatToStr(m \div Pow10(p))
          \o (IF p = 0 THEN <<>> ELSE <<".">> \o PadDigits(m % Pow10(p), p))

\* First index at or after i that does not hold a digit.
RECURSIVE DigitsEnd(_, _)
DigitsEnd(s, i) == IF i <= Len(s) /\ s[i] \in DigitSet
                   THEN DigitsEnd(s, i + 1) ELSE i

\* Value of the digits s[i..j-1] (0 for none).
RECURSIVE StrToNat(_, _, _)
StrToNat(s, i, j) == IF j <= i THEN 0
                     ELSE 10 * StrToNat(s, i, j - 1) + DigitVal(s[j - 1])

Min2(a, b) == IF a < b THEN a ELSE b

\* parseFloat: the longest prefix [sign] digits [. digits]; NaN when that
\* prefix holds no digit.  Fraction digits beyond DecimalDigits are dropped.
\* The texts of the model hold no exponent marker.
ParseFloat(s) ==
  LET signed == Len(s) >= 1 /\ s[1] \in {"+", "-"}
      start == IF signed THEN 2 ELSE 1
      ie == DigitsEnd(s, start)
      hasDot == ie <= Len(s) /\ s[ie] = "."
      fe == IF hasDot THEN DigitsEnd(s, ie + 1) ELSE ie
      nFrac == IF hasDot THEN fe - (ie + 1) ELSE 0
      used == Min2(nFrac, DecimalDigits)
      mag == StrToNat(s, start, ie) * Scale
             + (IF used = 0 THEN 0
                ELSE StrToNat(s, ie + 1, ie + 1 + used)
                     * Pow10(DecimalDigits - used))
  IN IF (ie - start) + nFrac = 0 THEN NaN
     ELSE Num(IF signed /\ s[1] = "-" THEN -mag ELSE mag)

(***************************************************************************)
(* The statics and the pure helpers of InspectorNumber.                    *)
(***************************************************************************)
\* InspectorNumber._NumDecimals
NumDecimals(x) ==
  LET valueString == NumberToString(x)
      dotIndex == IndexOf(valueString, ".")
  IN IF dotIndex > 0 THEN Len(valueString) - dotIndex ELSE 0

\* Math.round: the nearest integer, halves towards +Infinity.  The argument
\* is the rational num / den with den > 0.
MathRound(num, den) == (2 * num + den) \div (2 * den)

\* InspectorNumber._RoundToDecimal
RoundToDecimal(x, decimals) ==
  IF ~IsNum(x) THEN NaN
  ELSE IF decimals >= DecimalDigits THEN x
  ELSE LET tenTo == Pow10(decimals)
       IN Num(MathRound(x.v * tenTo, Scale) * (Scale \div tenTo))

\* InspectorNumber._getFinalValueString
GetFinalValueString(precision, x) ==
  IF IsNullish(x) THEN <<"0">>
  ELSE IF NumDecimals(x) > precision THEN ToFixed(x, precision)
  ELSE NumberToString(x)

\* The largest power of ten (in units of 1/Scale) that is <= a, for a >= 1.
RECURSIVE Pow10Below(_, _)
Pow10Below(p, a) == IF p * 10 <= a THEN Pow10Below(p * 10, a) ELSE p

\* if (props.step): undefined, 0 and NaN are falsy.
Truthy(x) == IsNum(x) /\ x.v # 0

\* The constructor's implied step (lines 138-142).
ImpliedStepOf(step, x) ==
  IF Truthy(step) THEN step
  ELSE IF StrictEq(x, Num(0)) THEN Num(Scale)
  ELSE IF ~IsNum(x) THEN NaN
  ELSE Num(Pow10Below(1, Abs(x.v)) \div 10)

\* The decimal resolution of the model can hold the implied step.
StepRepresentable(step, x) ==
  Truthy(step) \/ ~IsNum(x) \/ x.v = 0 \/ Abs(x.v) >= 10

\* A comparison with NaN or against a missing bound is false.
JsLess(a, b) == IsNum(a) /\ IsNum(b) /\ a.v < b.v

\* The min / max block of _handleValueChanged (lines 251-257).
ClampToProps(min, max, parsed) ==
  LET lo == IF min.t # "undef" /\ JsLess(parsed, min) THEN min ELSE parsed
  IN IF max.t # "undef" /\ JsLess(max, lo) THEN max ELSE lo

(***************************************************************************)
(* State.                                                                  *)
(***************************************************************************)
Controllers == {"A", "B"}
NoOne == "-"

VARIABLES
  obj,       \* object[property], shared by every controller
  ctl,       \* the fields, props and state of each InspectorNumber instance
  registry,  \* the notifier's registrations, in registration order
  docMove,   \* the document's "mousemove" listeners, in attachment order
  docUp,     \* the document's "mouseup" listeners, in attachment order
  domFocus,  \* the controller whose input element holds the focus
  tx,        \* per controller: the edit transaction and the value it began with
  trace      \* what the last event did: the event, then its effects in order

vars == <<obj, ctl, registry, docMove, docUp, domFocus, tx, trace>>

\* One entry of trace.  k: the kind; c: the controller acting (or receiving a
\* callback); by: the caller tag of a notification; a, b: values; s: a string.
Eff(k, c, by, a, b, s) == [k |-> k, c |-> c, by |-> by, a |-> a, b |-> b, s |-> s]

\* The part of the state the handlers work on, threaded through one event.
Cur == [obj |-> obj, ctl |-> ctl, registry |-> registry, docMove |-> docMove,
        docUp |-> docUp, tx |-> tx, trace |-> <<>>]

Emit(s, e) == [s EXCEPT !.trace = Append(@, e)]

\* this.setState({ value }): React drops the update of a component that is
\* not mounted.  Updates are applied in call order.
SetState(s, c, str) ==
  IF s.ctl[c].phase = "mounted" THEN [s EXCEPT !.ctl[c].value = str] ELSE s

\* Bookkeeping of the edit transaction: it begins with the first focus or
\* live edit after the previous commit trigger and remembers the value
\* object[property] had at that moment.
TxBegin(s, c) ==
  IF s.tx[c].open THEN s
  ELSE [s EXCEPT !.tx[c] = [open |-> TRUE, start |-> s.obj]]

TxEnd(s, c) == [s EXCEPT !.tx[c] = [open |-> FALSE, start |-> Undefined]]

(***************************************************************************)
(* The change notifier (../notifier, not part of the sources at hand).     *)
(***************************************************************************)
RemoveCaller(regs, c) == SelectSeq(regs, LAMBDA r : r.caller # c)

\* Register: one entry per subscriber, a second registration replaces it.
Register(s, c, target) ==
  [s EXCEPT !.registry = Append(RemoveCaller(@, c), [caller |-> c, target |-> target])]

Unregister(s, c) == [s EXCEPT !.registry = RemoveCaller(@, c)]

\* A slip: the callback shows the exact text of the value, not the display
\* rule's rendering.
RegisteredCallbackExact(s, c, caller) ==
  SetState(Emit(s, Eff("callback", c, caller, s.obj, Undefined, <<>>)),
           c, NumberToString(s.obj))

\* A slip: the callback takes the precision from the decimals of the value
\* it is told of.
RegisteredCallbackRecomputes(s, c, caller) ==
  LET s1 == Emit(s, Eff("callback", c, caller, s.obj, Undefined, <<>>))
      precision == IF IsNum(s.obj) THEN NumDecimals(s.obj) ELSE s.ctl[c].precision
  IN SetState([s1 EXCEPT !.ctl[c].precision = precision],
              c, GetFinalValueString(precision, s.obj))

\* The callback componentDidMount registers (lines 211-214).
RegisteredCallback(s, c, caller) ==
  SetState(Emit(s, Eff("callback", c, caller, s.obj, Undefined, <<>>)),
           c, GetFinalValueString(s.ctl[c].precision, s.obj))

RECURSIVE Deliver(_, _, _, _, _)
Deliver(s, regs, i, target, caller) ==
  IF i > Len(regs) THEN s
  ELSE IF regs[i].caller # caller /\ regs[i].target = target
  THEN Deliver(RegisteredCallback(s, regs[i].caller, caller), regs, i + 1, target, caller)
  ELSE Deliver(s, regs, i + 1, target, caller)

\* NotifyChange(target, { caller }): synchronous, in registration order, to
\* every callback registered for target except the caller's own.
NotifyChange(s, emitter, target, caller) ==
  Deliver(Emit(s, Eff("notify", emitter, caller, target, Undefined, <<>>)),
          s.registry, 1, target, caller)

(***************************************************************************)
(* InspectorNumber: constructor and lifecycle.                             *)
(***************************************************************************)
\* The props a host passes: min, max, step and defaultValue may be undefined.
\* onChange and onFinishChange are always supplied and show in trace.
Props(min, max, step, defaultValue) ==
  [min |-> min, max |-> max, step |-> step, defaultValue |-> defaultValue,
   noSlider |-> FALSE]

NoSlider(props) == [props EXCEPT !.noSlider = TRUE]

NoProps == Props(Undefined, Undefined, Undefined, Undefined)

\* The fields of an instance that does not exist (yet).
Absent ==
  [phase |-> "none", props |-> NoProps, value |-> <<>>, precision |-> 0,
   impliedStep |-> Undefined, initialValue |-> Undefined, isFocused |-> FALSE,
   lastMousePosition |-> 0, mouseMoveListener |-> 0, mouseUpListener |-> 0]

\* A slip: the default replaces a number the property already holds.
UsesDefaultAlways(value, defaultValue) == TypeofNumber(defaultValue)

\* Line 129: the default is used when the property is not a number.
UsesDefault(value, defaultValue) ==
  ~TypeofNumber(value) /\ TypeofNumber(defaultValue)

\* The constructor (lines 124-148).  A throw leaves no instance behind.
Constructor(s, c, props) ==
  LET s0 == Emit(s, Eff("construct", c, NoOne, s.obj, props.defaultValue, <<>>))
      useDefault == UsesDefault(s0.obj, props.defaultValue)
      value == IF useDefault THEN props.defaultValue ELSE s0.obj
      s1 == IF useDefault
            THEN Emit([s0 EXCEPT !.obj = value],
                      Eff("write", c, NoOne, value, Undefined, <<>>))
            ELSE s0
      impliedStep == ImpliedStepOf(props.step, value)
      precision == NumDecimals(impliedStep)
  IN IF ~TypeofNumber(value)
     THEN Emit(s1, Eff("throw", c, NoOne, value, Undefined, <<>>))
     ELSE [s1 EXCEPT !.ctl[c] =
             [Absent EXCEPT !.phase = "constructed",
                            !.props = props,
                            !.impliedStep = impliedStep,
                            !.initialValue = value,
                            !.precision = precision,
                            !.value = GetFinalValueString(precision, value)]]

\* componentDidMount (lines 206-215).
ComponentDidMount(s, c) ==
  Register([s EXCEPT !.ctl[c].phase = "mounted"], c, TheObject)

\* componentWillUnmount (lines 220-224).
ComponentWillUnmount(s, c) ==
  Unregister([s EXCEPT !.ctl[c].phase = "unmounted"], c)

(***************************************************************************)
(* InspectorNumber: the handlers.                                          *)
(***************************************************************************)
\* A slip: the value is rounded for display before it is stored.
StoredValueRounded(parsedValue, precision) == RoundToDecimal(parsedValue, precision)

\* Line 260: the number stored in object[property].
StoredValue(parsedValue, precision) == parsedValue

\* Line 272: the caller tag of the notification of a live edit.
LiveCaller(c) == c

\* A slip: the commit's notification names no caller.
CommitCallerNone(c) == NoOne

\* Lines 335-337: the caller tag of the notification of a commit.
CommitCaller(c) == c

\* A slip: the displayed string is the rounded number for typed text too.
DisplayedAfterEditRounded(value, parsedValue, precision, fromMouseEvent) ==
  NumberToString(RoundToDecimal(parsedValue, precision))

\* Lines 263-267: the string a live edit displays.
DisplayedAfterEdit(value, parsedValue, precision, fromMouseEvent) ==
  IF fromMouseEvent
  THEN NumberToString(RoundToDecimal(parsedValue, precision))
  ELSE value

\* _handleValueChanged (lines 244-273).
HandleValueChanged(s, c, value, fromMouseEvent) ==
  IF value = <<>> THEN SetState(TxBegin(s, c), c, value)
  ELSE
    LET me == s.ctl[c]
        raw == ParseFloat(value)
        parsedValue == ClampToProps(me.props.min, me.props.max, raw)
        stored == StoredValue(parsedValue, me.precision)
        s1 == Emit(TxBegin(s, c), Eff("parsed", c, NoOne, raw, Undefined, value))
        s2 == Emit([s1 EXCEPT !.obj = stored],
                   Eff("write", c, NoOne, stored, Undefined, <<>>))
        shown == DisplayedAfterEdit(value, parsedValue, me.precision, fromMouseEvent)
        s3 == Emit(SetState(s2, c, shown),
                   Eff("onChange", c, NoOne, parsedValue, Undefined, shown))
    IN NotifyChange(s3, c, s3.obj, LiveCaller(c))

\* _handleSliderChanged (lines 278-280).
HandleSliderChanged(s, c, v) == HandleValueChanged(s, c, NumberToString(v), TRUE)

\* A slip: the baseline is updated before onFinishChange is called, so the
\* callback receives the new value twice.
HandleValueFinishChangedBaselineFirst(s, c) ==
  LET me == s.ctl[c]
      value == s.obj
      start == IF s.tx[c].open THEN s.tx[c].start ELSE value
      s0 == TxEnd(Emit(s, Eff("commit", c, NoOne, value, start, <<>>)), c)
  IN IF StrictEq(value, me.initialValue) THEN s0
     ELSE
       LET s1 == [s0 EXCEPT !.ctl[c].initialValue = value]
           s2 == Emit(s1, Eff("onFinishChange", c, NoOne, value,
                              s1.ctl[c].initialValue, <<>>))
           s3 == NotifyChange(s2, c, TheObject, CommitCaller(c))
       IN SetState(s3, c, GetFinalValueString(me.precision, value))

\* _handleValueFinishChanged (lines 327-342).
HandleValueFinishChanged(s, c) ==
  LET me == s.ctl[c]
      value == s.obj
      start == IF s.tx[c].open THEN s.tx[c].start ELSE value
      s0 == TxEnd(Emit(s, Eff("commit", c, NoOne, value, start, <<>>)), c)
  IN IF StrictEq(value, me.initialValue) THEN s0
     ELSE
       LET s1 == Emit(s0, Eff("onFinishChange", c, NoOne, value, me.initialValue, <<>>))
           s2 == NotifyChange(s1, c, TheObject, CommitCaller(c))
           s3 == [s2 EXCEPT !.ctl[c].initialValue = value]
       IN SetState(s3, c, GetFinalValueString(me.precision, value))

\* _handleInputFocused (lines 229-231).
HandleInputFocused(s, c) == TxBegin([s EXCEPT !.ctl[c].isFocused = TRUE], c)

\* _handleInputBlurred (lines 236-239).
HandleInputBlurred(s, c) ==
  HandleValueFinishChanged([s EXCEPT !.ctl[c].isFocused = FALSE], c)

\* _handleEnterKeyPressed (lines 347-351).  The key reaches the handler of the
\* focused input only, so this._input.blur() raises the blur event, whose
\* handler runs before blur() returns.
HandleEnterKeyPressed(s, c) ==
  HandleValueFinishChanged(HandleInputBlurred(s, c), c)

\* A listener identity no closure in use has.
UsedIds(s) == {s.docMove[i].id : i \in 1..Len(s.docMove)}
              \cup {s.docUp[i].id : i \in 1..Len(s.docUp)}
              \cup {s.ctl[c].mouseMoveListener : c \in Controllers}
              \cup {s.ctl[c].mouseUpListener : c \in Controllers}
FreshId(s) == CHOOSE i \in 1..(Cardinality(UsedIds(s)) + 1) : i \notin UsedIds(s)

\* A slip: the pointer-down arms the drag without looking at the focus flag.
HandleInputClickedUnfocused(s, c, pageY) ==
  LET id == FreshId(s)
  IN [s EXCEPT !.ctl[c].lastMousePosition = pageY,
               !.ctl[c].mouseMoveListener = id,
               !.ctl[c].mouseUpListener = id,
               !.docMove = Append(@, [owner |-> c, id |-> id]),
               !.docUp = Append(@, [owner |-> c, id |-> id])]

\* _handleInputClicked (lines 285-304).
HandleInputClicked(s, c, pageY) ==
  IF ~s.ctl[c].isFocused THEN s
  ELSE LET id == FreshId(s)
       IN [s EXCEPT !.ctl[c].lastMousePosition = pageY,
                    !.ctl[c].mouseMoveListener = id,
                    !.ctl[c].mouseUpListener = id,
                    !.docMove = Append(@, [owner |-> c, id |-> id]),
                    !.docUp = Append(@, [owner |-> c, id |-> id])]

\* A slip: the anchor is not moved, so every move adds the whole distance
\* from the pointer-down again.
MouseMoveListenerCumulative(s, c, pageY) ==
  LET me == s.ctl[c]
      delta == me.lastMousePosition - pageY
      newValue == JsAdd(s.obj, JsMulInt(delta, me.impliedStep))
  IN HandleValueChanged(s, c, NumberToString(newValue), TRUE)

\* The mousemove listener (lines 292-299).
MouseMoveListener(s, c, pageY) ==
  LET me == s.ctl[c]
      delta == me.lastMousePosition - pageY
      newValue == JsAdd(s.obj, JsMulInt(delta, me.impliedStep))
      s1 == HandleValueChanged(s, c, NumberToString(newValue), TRUE)
  IN [s1 EXCEPT !.ctl[c].lastMousePosition = pageY]

RemoveId(ls, id) == SelectSeq(ls, LAMBDA l : l.id # id)

\* _handleMouseUp (lines 309-322).
HandleMouseUp(s, c) ==
  LET me == s.ctl[c]
      s1 == [s EXCEPT !.docMove = IF me.mouseMoveListener # 0
                                  THEN RemoveId(@, me.mouseMoveListener) ELSE @,
                      !.docUp = IF me.mouseUpListener # 0
                                THEN RemoveId(@, me.mouseUpListener) ELSE @,
                      !.ctl[c].mouseMoveListener = 0,
                      !.ctl[c].mouseUpListener = 0]
  IN HandleValueFinishChanged(s1, c)

\* The document dispatching one event to the listeners attached when it is
\* raised, in attachment order; a listener removed meanwhile is skipped.
RECURSIVE DispatchMove(_, _, _, _)
DispatchMove(s, ls, i, pageY) ==
  IF i > Len(ls) THEN s
  ELSE IF \E j \in 1..Len(s.docMove) : s.docMove[j] = ls[i]
  THEN DispatchMove(MouseMoveListener(s, ls[i].owner, pageY), ls, i + 1, pageY)
  ELSE DispatchMove(s, ls, i + 1, pageY)

RECURSIVE DispatchUp(_, _, _)
DispatchUp(s, ls, i) ==
  IF i > Len(ls) THEN s
  ELSE IF \E j \in 1..Len(s.docUp) : s.docUp[j] = ls[i]
  THEN DispatchUp(HandleMouseUp(s, ls[i].owner), ls, i + 1)
  ELSE DispatchUp(s, ls, i + 1)

(***************************************************************************)
(* The inputs of the model.                                                *)
(***************************************************************************)
Base == Dec(50, 0)
Lo == Dec(49, 0)
Hi == Dec(51, 0)

\* What object[property] holds before any controller exists.
InitialValues == {Undefined, Base}

\* A bounded field with a default, and a bare field.  Neither passes a step,
\* so the implied step of a value near 50 is 1 and the precision 0.
BoundedProps == Props(Lo, Hi, Undefined, Base)
MainProps == {BoundedProps, NoProps}

\* Texts the user types: empty, unparseable, above the bounds, and one with
\* more decimals than the precision.
TypedTexts == {<<>>, <<"-">>, <<"8", "0">>, <<"5", "0", ".", "5">>}

\* The values a slider tick can report: min, min + step, ... up to max (the
\* slider steps by 1 when props.step is undefined).
SliderValues(props) ==
  LET step == IF Truthy(props.step) THEN props.step.v ELSE Scale
  IN {Num(props.min.v + k * step) : k \in 0..((props.max.v - props.min.v) \div step)}

\* Values another writer (an undo, a script) stores: one out of the range of
\* the bounded props, one with more decimals than the precision.
ExternalValues == {Dec(80, 0), Dec(50, 50)}

(***************************************************************************)
(* Initial state and the events.                                           *)
(***************************************************************************)
Init ==
  /\ obj \in InitialValues
  /\ ctl = [c \in Controllers |-> Absent]
  /\ registry = <<>>
  /\ docMove = <<>>
  /\ docUp = <<>>
  /\ domFocus = NoOne
  /\ tx = [c \in Controllers |-> [open |-> FALSE, start |-> Undefined]]
  /\ trace = <<>>

\* The event that starts an action, as the first entry of trace.
Event(name, c, a, str) == Emit(Cur, Eff(name, c, NoOne, a, Undefined, str))

Becomes(s, focus) ==
  /\ obj' = s.obj
  /\ ctl' = s.ctl
  /\ registry' = s.registry
  /\ docMove' = s.docMove
  /\ docUp' = s.docUp
  /\ tx' = s.tx
  /\ trace' = s.trace
  /\ domFocus' = focus

\* new InspectorNumber(props), by React when the host renders the field.
Construct(c, props) ==
  /\ ctl[c].phase = "none"
  /\ StepRepresentable(props.step,
                       IF UsesDefault(obj, props.defaultValue)
                       THEN props.defaultValue ELSE obj)
  /\ Becomes(Constructor(Cur, c, props), domFocus)

Mount(c) ==
  /\ ctl[c].phase = "constructed"
  /\ Becomes(ComponentDidMount(Event("mount", c, Undefined, <<>>), c), domFocus)

\* The element leaves the document; no blur event is raised for it.
Unmount(c) ==
  /\ ctl[c].phase = "mounted"
  /\ Becomes(ComponentWillUnmount(Event("unmount", c, Undefined, <<>>), c),
             IF domFocus = c THEN NoOne ELSE domFocus)

\* The input of c takes the focus; the input that held it is blurred first.
Focus(c) ==
  /\ ctl[c].phase = "mounted"
  /\ domFocus # c
  /\ LET s0 == Event("focus", c, Undefined, <<>>)
         s1 == IF domFocus # NoOne THEN HandleInputBlurred(s0, domFocus) ELSE s0
     IN Becomes(HandleInputFocused(s1, c), c)

Blur(c) ==
  /\ domFocus = c
  /\ Becomes(HandleInputBlurred(Event("blur", c, Undefined, <<>>), c), NoOne)

EnterKey(c) ==
  /\ domFocus = c
  /\ Becomes(HandleEnterKeyPressed(Event("enter", c, Undefined, <<>>), c), NoOne)

\* NumberInput's onChange: the user edits the text of the focused input.
TypedInput(c, text) ==
  /\ domFocus = c
  /\ Becomes(HandleValueChanged(Event("typed", c, Undefined, text), c, text, FALSE),
             domFocus)

\* The slider exists when min and max are given (lines 155-171).
SliderChanged(c) ==
  /\ ctl[c].phase = "mounted"
  /\ ctl[c].props.min.t # "undef" /\ ctl[c].props.max.t # "undef"
  /\ ~ctl[c].props.noSlider
  /\ \E v \in SliderValues(ctl[c].props) :
       Becomes(HandleSliderChanged(Event("slider", c, v, <<>>), c, v), domFocus)

MouseDown(c, pageY) ==
  /\ ctl[c].phase = "mounted"
  /\ Len(docMove) < MaxListeners
  /\ Becomes(HandleInputClicked(Event("mousedown", c, Num(pageY), <<>>), c, pageY),
             domFocus)

\* A mousemove of the document, given to every listener attached.
MouseMove(pageY) ==
  /\ docMove # <<>>
  /\ LET s == DispatchMove(Event("mousemove", NoOne, Num(pageY), <<>>), docMove, 1, pageY)
     IN /\ IsNum(s.obj) => Abs(s.obj.v - Base.v) <= MaxDrift * Scale
        /\ Becomes(s, domFocus)

\* A mouseup of the document.
MouseUp ==
  /\ docUp # <<>>
  /\ Becomes(DispatchUp(Event("mouseup", NoOne, Undefined, <<>>), docUp, 1), domFocus)

\* Another writer stores v and tells the notifier, naming no caller.
ExternalChange(v) ==
  /\ v # obj
  /\ LET s0 == Event("external", NoOne, v, <<>>)
         s1 == Emit([s0 EXCEPT !.obj = v], Eff("write", NoOne, NoOne, v, Undefined, <<>>))
     IN Becomes(NotifyChange(s1, NoOne, TheObject, NoOne), domFocus)

\* The events of the controllers cs, built with props of ps, typing texts of ts.
NextFor(cs, ps, ts) ==
  \/ \E c \in cs, props \in ps : Construct(c, props)
  \/ \E c \in cs : Mount(c)
  \/ \E c \in cs : Unmount(c)
  \/ \E c \in cs : Focus(c)
  \/ \E c \in cs : Blur(c)
  \/ \E c \in cs : EnterKey(c)
  \/ \E c \in cs, text \in ts : TypedInput(c, text)
  \/ \E c \in cs : SliderChanged(c)
  \/ \E c \in cs, pageY \in 0..MaxPageY : MouseDown(c, pageY)
  \/ \E pageY \in 0..MaxPageY : MouseMove(pageY)
  \/ MouseUp
  \/ \E v \in ExternalValues : ExternalChange(v)

\* One controller and another writer.
Next == NextFor({"A"}, MainProps, TypedTexts)

Spec == Init /\ [][Next]_vars

\* Two controllers on the same object and property, and another writer.  The
\* user works with the keyboard; the field of A has a slider, that of B has
\* none.
PairTexts == {<<"8", "0">>, <<"5", "0", ".", "5">>}
PairProps(c) == IF c = "A" THEN BoundedProps ELSE NoSlider(BoundedProps)
PairExternalValues == {Dec(80, 0)}

NextPair ==
  \/ \E c \in Controllers : Construct(c, PairProps(c))
  \/ \E c \in Controllers : Mount(c)
  \/ \E c \in Controllers : Unmount(c)
  \/ \E c \in Controllers : Focus(c)
  \/ \E c \in Controllers : Blur(c)
  \/ \E c \in Controllers : EnterKey(c)
  \/ \E c \in Controllers, text \in PairTexts : TypedInput(c, text)
  \/ \E c \in Controllers : SliderChanged(c)
  \/ \E v \in PairExternalValues : ExternalChange(v)

SpecPair == Init /\ [][NextPair]_vars

\* One controller dragged over more positions, with the implied step or an
\* explicit step of one half, and no bounds to clamp at.
DragPageY == 2
DragStep == Dec(0, 50)
DragProps == {NoProps, Props(Undefined, Undefined, DragStep, Undefined)}

NextDrag ==
  \/ \E props \in DragProps : Construct("A", props)
  \/ Mount("A")
  \/ Focus("A")
  \/ Blur("A")
  \/ \E pageY \in 0..DragPageY : MouseDown("A", pageY)
  \/ \E pageY \in 0..DragPageY : MouseMove(pageY)
  \/ MouseUp

SpecDrag == Init /\ [][NextDrag]_vars

\* The constructor alone, over what a property can hold and what a host can
\* pass.
Text == [t |-> "string", v |-> 0]
CtorValues == {Undefined, Text, NaN, Num(0), Dec(0, 50), Dec(5, 0), Base, Dec(50, 50)}
CtorProps == {Props(Undefined, Undefined, step, defaultValue) :
                step \in {Undefined, Num(0), Dec(0, 25)},
                defaultValue \in {Undefined, NaN, Num(0), Base}}

InitCtor ==
  /\ obj \in CtorValues
  /\ ctl = [c \in Controllers |-> Absent]
  /\ registry = <<>>
  /\ docMove = <<>>
  /\ docUp = <<>>
  /\ domFocus = NoOne
  /\ tx = [c \in Controllers |-> [open |-> FALSE, start |-> Undefined]]
  /\ trace = <<>>

NextCtor == \E c \in Controllers, props \in CtorProps : Construct(c, props)

SpecCtor == InitCtor /\ [][NextCtor]_vars

(***************************************************************************)
(* Vocabulary of the properties.                                           *)
(***************************************************************************)
Idx == 1..Len(trace)
EventIs(names) == trace # <<>> /\ trace[1].k \in names
HasBounds(c) == IsNum(ctl[c].props.min) /\ IsNum(ctl[c].props.max)
InRange(x, lo, hi) == IsNum(x) /\ lo.v <= x.v /\ x.v <= hi.v
\* clamp(v, m, M) of the specification.
MathClamp(x, lo, hi) ==
  IF ~IsNum(x) THEN x
  ELSE IF x.v < lo.v THEN lo ELSE IF x.v > hi.v THEN hi ELSE x
Registered(c) == \E i \in 1..Len(registry) : registry[i].caller = c
\* The controller shows the display-rule rendering of object[property].
ShowsRendering(c) == ctl[c].value = GetFinalValueString(ctl[c].precision, obj)
Count(k, c) == Cardinality({i \in Idx : trace[i].k = k /\ trace[i].c = c})

(***************************************************************************)
(* C1.  With min = m and max = M, the value a typed input, a slider tick   *)
(* or a drag move writes is clamp(v, m, M) of the parsed input v, onChange *)
(* receives that value, and so the property stays inside [m, M].           *)
(* Stated as claimed; the code breaks the last part: an unparseable text   *)
(* parses to NaN, passes both comparisons and is written.                  *)
(***************************************************************************)
C1_Clamping ==
  \A i \in Idx :
    (trace[i].k = "parsed" /\ HasBounds(trace[i].c)) =>
      LET c == trace[i].c
          m == ctl[c].props.min
          M == ctl[c].props.max
      IN /\ i + 2 <= Len(trace)
         /\ trace[i + 1].k = "write"
         /\ trace[i + 1].a = MathClamp(trace[i].a, m, M)
         /\ trace[i + 2].k = "onChange"
         /\ trace[i + 2].a = trace[i + 1].a
         /\ InRange(trace[i + 1].a, m, M)

(***************************************************************************)
(* C2.  Whenever a controller has no uncommitted edit (not focused, no     *)
(* drag in progress, no partially typed text shown) object[property]       *)
(* equals its _initialValue.  Stated as claimed; the code breaks it: a     *)
(* slider tick and an external change move the property and leave          *)
(* _initialValue behind.                                                   *)
(***************************************************************************)
NoUncommittedEdit(c) ==
  /\ ctl[c].phase = "mounted"
  /\ ~ctl[c].isFocused
  /\ ctl[c].mouseMoveListener = 0
  /\ ShowsRendering(c)

C2_BaselineAgrees ==
  \A c \in Controllers : NoUncommittedEdit(c) => obj = ctl[c].initialValue

(***************************************************************************)
(* C3.  A commit (blur, Enter, drag release) at which object[property]     *)
(* equals the value it had when the edit transaction began invokes no      *)
(* onFinishChange and emits no NotifyChange, also when the property was    *)
(* changed externally before the transaction began.  Stated as claimed;    *)
(* the code compares with _initialValue, which an external change leaves   *)
(* stale.                                                                  *)
(***************************************************************************)
C3_NoOpCommit ==
  \A i \in Idx :
    (trace[i].k = "commit" /\ StrictEq(trace[i].a, trace[i].b)) =>
      ~(i + 1 <= Len(trace)
        /\ trace[i + 1].c = trace[i].c
        /\ trace[i + 1].k \in {"onFinishChange", "notify"})

(***************************************************************************)
(* C4.  onFinishChange fires at most once per edit transaction, and only   *)
(* when the final value differs from the value the transaction began with; *)
(* Enter, which commits from the blur handler and then again, fires it at  *)
(* most once.  Stated as claimed; the code breaks both parts (NaN is never *)
(* equal to the baseline; the baseline is stale after an external change). *)
(***************************************************************************)
C4_OncePerTransaction ==
  /\ \A c \in Controllers : Count("onFinishChange", c) <= 1
  /\ \A i \in Idx :
       trace[i].k = "onFinishChange" =>
         /\ i > 1
         /\ trace[i - 1].k = "commit"
         /\ trace[i - 1].a # trace[i - 1].b

(***************************************************************************)
(* C5.  A typed text that is empty or does not parse as a number leaves    *)
(* object[property] unchanged and invokes neither onChange nor             *)
(* NotifyChange.  Stated as claimed; the code guards the empty text only.  *)
(***************************************************************************)
C5_UnparseableIgnored ==
  (EventIs({"typed"}) /\ (trace[1].s = <<>> \/ ParseFloat(trace[1].s) = NaN)) =>
    \A i \in Idx : trace[i].k \notin {"write", "onChange", "notify"}

(***************************************************************************)
(* C6.  With A and B mounted on the same object and property, every live   *)
(* edit by one of them makes the notifier run the other's callback, so     *)
(* that the other's display is refreshed from the new value, and does not  *)
(* run its own.  Stated as claimed; the code breaks it: the live edit's    *)
(* NotifyChange names object[property], a number, as its target, and no    *)
(* one is registered for a number.                                         *)
(***************************************************************************)
C6_LiveEditReachesOther ==
  \A i \in Idx :
    trace[i].k = "onChange" =>
      \A d \in Controllers \ {trace[i].c} :
        Registered(d) =>
          /\ \E j \in Idx : /\ j > i
                            /\ trace[j].k = "callback"
                            /\ trace[j].c = d
          /\ ShowsRendering(d)
          /\ \A j \in Idx : trace[j].k = "callback" => trace[j].c # trace[i].c

(***************************************************************************)
(* C7.  Self-exclusion.  Every NotifyChange a controller emits names that  *)
(* controller as caller; a notification runs the callback of every other   *)
(* subscriber of its target and never the caller's; and the text a user    *)
(* typed stays displayed after the notification the edit caused.           *)
(***************************************************************************)
\* The callbacks run by the notification at trace[i]: the run of "callback"
\* entries that follows it.
DeliveredTo(i) ==
  {trace[j].c : j \in {n \in Idx : /\ n > i
                                    /\ \A m \in (i + 1)..n : trace[m].k = "callback"}}

Subscribers(target, caller) ==
  {registry[n].caller : n \in {m \in 1..Len(registry) :
                                 /\ registry[m].target = target
                                 /\ registry[m].caller # caller}}

C7_SelfExclusion ==
  /\ \A i \in Idx :
       trace[i].k = "notify" =>
         /\ trace[i].c \in Controllers => trace[i].by = trace[i].c
         /\ DeliveredTo(i) = Subscribers(trace[i].a, trace[i].by)
         /\ trace[i].c \notin DeliveredTo(i)
  /\ \A i \in Idx : trace[i].k = "callback" => trace[i].by # trace[i].c
  /\ (EventIs({"typed"}) /\ Len(trace) > 1) => ctl[trace[1].c].value = trace[1].s

\* A commits while A and B are subscribed: B's callback runs, A's does not.
C7_Witness ==
  /\ Registered("A") /\ Registered("B")
  /\ \E i \in Idx : /\ trace[i].k = "notify"
                    /\ trace[i].c = "A"
                    /\ trace[i].a = TheObject
                    /\ DeliveredTo(i) = {"B"}

(***************************************************************************)
(* C8.  Commit propagation.  When a controller commits a changed value,    *)
(* every other mounted controller shows the display-rule rendering of the  *)
(* new value and neither its onChange nor its onFinishChange runs; and a   *)
(* change delivered to a controller by the notifier changes its displayed  *)
(* string only: not object[property], not its baseline, precision or       *)
(* implied step.                                                           *)
(***************************************************************************)
C8_OthersRefreshed ==
  \A i \in Idx :
    trace[i].k = "onFinishChange" =>
      \A d \in Controllers \ {trace[i].c} :
        Registered(d) =>
          /\ ShowsRendering(d)
          /\ Count("onChange", d) = 0
          /\ Count("onFinishChange", d) = 0

\* d takes no part in the event but receives a callback.
OnlyNotified(tr, d) ==
  /\ tr # <<>>
  /\ tr[1].c # d
  /\ \E i \in 1..Len(tr) : tr[i].k = "callback" /\ tr[i].c = d
  /\ \A i \in 1..Len(tr) : tr[i].c = d => tr[i].k = "callback"

C8_CallbackFrame ==
  \A d \in Controllers :
    OnlyNotified(trace', d) =>
      /\ ctl'[d] = [ctl[d] EXCEPT
                      !.value = GetFinalValueString(ctl[d].precision, obj')]
      /\ tx'[d] = tx[d]
      /\ \A i \in 1..Len(trace') :
           (trace'[i].k = "callback" /\ trace'[i].c = d) => trace'[i].a = obj'

C8_CommitPropagation == []C8_OthersRefreshed /\ [][C8_CallbackFrame]_vars

\* A commits 50.5 and B, mounted, shows it rounded to its precision.
C8_Witness ==
  /\ Registered("B")
  /\ obj = Dec(50, 50)
  /\ ctl["B"].value = <<"5", "1">>
  /\ \E i \in Idx : /\ trace[i].k = "onFinishChange"
                    /\ trace[i].c = "A"
                    /\ trace[i].a = Dec(50, 50)
                    /\ "B" \in DeliveredTo(i + 1)

(***************************************************************************)
(* C9.  Precision stability.  A slider tick or a drag move writes the      *)
(* clamped value unrounded and rounds the displayed string only; a value   *)
(* is written by a live edit, the constructor's default or another writer, *)
(* never by the refresh of a display on commit or on notification; and the *)
(* property then holds exactly the number last written.                    *)
(***************************************************************************)
C9_GestureStoresExact ==
  \A i \in Idx :
    (EventIs({"slider", "mousemove"}) /\ trace[i].k = "parsed") =>
      LET me == ctl[trace[i].c]
          clamped == ClampToProps(me.props.min, me.props.max, trace[i].a)
      IN /\ i + 2 <= Len(trace)
         /\ trace[i + 1].k = "write"
         /\ trace[i + 1].a = clamped
         /\ trace[i + 2].k = "onChange"
         /\ trace[i + 2].s = NumberToString(RoundToDecimal(clamped, me.precision))

C9_WritesAreEdits ==
  \A i \in Idx :
    trace[i].k = "write" =>
      /\ i > 1
      /\ trace[i - 1].k \in {"parsed", "construct", "external"}

Writes(tr) == {i \in 1..Len(tr) : tr[i].k = "write"}

C9_ReadsBackStored ==
  IF Writes(trace') = {} THEN obj' = obj
  ELSE obj' = trace'[CHOOSE i \in Writes(trace') :
                       \A j \in Writes(trace') : j <= i].a

C9_PrecisionStability ==
  /\ []C9_GestureStoresExact
  /\ []C9_WritesAreEdits
  /\ [][C9_ReadsBackStored]_vars

\* A drag move has stored a value with more decimals than the precision: the
\* display shows it rounded, the property holds it exactly.
C9_Witness ==
  /\ EventIs({"mousemove"})
  /\ ctl["A"].phase = "mounted"
  /\ IsNum(obj)
  /\ RoundToDecimal(obj, ctl["A"].precision) # obj
  /\ ctl["A"].value = NumberToString(RoundToDecimal(obj, ctl["A"].precision))
  /\ \E i \in Idx : trace[i].k = "write" /\ trace[i].c = "A" /\ trace[i].a = obj

(***************************************************************************)
(* C10.  Construction succeeds exactly when object[property] or            *)
(* defaultValue is a number (typeof), and otherwise throws and leaves no   *)
(* controller; a property that is not a number is set to a numeric         *)
(* default; a property that is a number is kept and the object is not      *)
(* written.                                                                *)
(***************************************************************************)
C10_Construction ==
  EventIs({"construct"}) =>
    LET c == trace[1].c
        before == trace[1].a
        defaultValue == trace[1].b
        thrown == \E i \in Idx : trace[i].k = "throw"
        written == \E i \in Idx : trace[i].k = "write"
    IN /\ (TypeofNumber(before) \/ TypeofNumber(defaultValue))
            <=> (ctl[c].phase = "constructed" /\ ~thrown)
       /\ ~(TypeofNumber(before) \/ TypeofNumber(defaultValue))
            => (thrown /\ ctl[c] = Absent /\ obj = before /\ ~written)
       /\ (~TypeofNumber(before) /\ TypeofNumber(defaultValue))
            => (obj = defaultValue /\ ctl[c].initialValue = defaultValue)
       /\ TypeofNumber(before)
            => (obj = before /\ ~written /\ ctl[c].initialValue = before)

\* A property that held no number was given the default.
C10_Witness ==
  /\ EventIs({"construct"})
  /\ ~TypeofNumber(trace[1].a)
  /\ TypeofNumber(trace[1].b)
  /\ obj = trace[1].b
  /\ ctl[trace[1].c].phase = "constructed"

\* A document listener of c is attached.
Attached(c) ==
  \/ \E i \in 1..Len(docMove) : docMove[i].owner = c
  \/ \E i \in 1..Len(docUp) : docUp[i].owner = c

(***************************************************************************)
(* C11.  After a pointer-up no mousemove or mouseup listener a controller  *)
(* attached is left on the document, whatever pointer-downs, moves and     *)
(* pointer-ups came before.                                                *)
(* Stated as claimed; the code breaks it: a second pointer-down overwrites *)
(* the two fields holding the listeners of the first, so the pointer-up    *)
(* removes the second pair only.                                           *)
(***************************************************************************)
C11_ListenersRemoved ==
  EventIs({"mouseup"}) => \A c \in Controllers : ~Attached(c)

(***************************************************************************)
(* C12.  A drag is armed only while the field is focused.  A pointer-down  *)
(* on a field whose focus flag is false records no anchor and attaches no  *)
(* listener: it changes neither the controller, the document's listeners   *)
(* nor object[property].  The document gains a listener by a pointer-down  *)
(* on a focused field only, and a pointer move writes object[property]     *)
(* only for a controller that had a listener attached.                     *)
(***************************************************************************)
C12_UnfocusedDownArmsNothing ==
  (EventIs({"mousedown"})' /\ ~ctl[trace'[1].c].isFocused) =>
    /\ ctl' = ctl
    /\ docMove' = docMove
    /\ docUp' = docUp
    /\ obj' = obj
    /\ Len(trace') = 1

C12_ListenersFromFocusedDown ==
  (Len(docMove') > Len(docMove) \/ Len(docUp') > Len(docUp)) =>
    /\ EventIs({"mousedown"})'
    /\ ctl[trace'[1].c].isFocused
    /\ ctl'[trace'[1].c].lastMousePosition = trace'[1].a.v

C12_MovesNeedListener ==
  EventIs({"mousemove"})' =>
    \A i \in 1..Len(trace') :
      trace'[i].k \in {"write", "onChange"} => Attached(trace'[i].c)

C13_DisposedIsDetached ==
  \A c \in Controllers :
    ctl[c].phase = "unmounted" => (~Registered(c) /\ ~Attached(c))

(***************************************************************************)
(* C14.  A blur (or Enter) during a drag ends the drag as a pointer-up     *)
(* does: the listeners of the controller are removed and the edit is       *)
(* committed.                                                              *)
(* Stated as claimed; the code breaks it: _handleInputBlurred clears the   *)
(* focus flag and commits, and leaves the listeners attached.              *)
(***************************************************************************)
C14_BlurEndsDrag ==
  EventIs({"blur", "enter"}) =>
    /\ ~Attached(trace[1].c)
    /\ \E i \in Idx : trace[i].k = "commit" /\ trace[i].c = trace[1].c

(***************************************************************************)
(* C15.  A commit that finds object[property] different from the baseline  *)
(* calls onFinishChange(newValue, oldValue) with newValue the current      *)
(* object[property] and oldValue the baseline, then emits one notification *)
(* for the object itself tagged with the controller, sets the baseline to  *)
(* newValue and shows the display-rule rendering of newValue.  The         *)
(* baseline changes in no other way after construction, so each oldValue   *)
(* is the newValue of the controller's previous onFinishChange, or the     *)
(* value at construction for the first.                                    *)
(***************************************************************************)
Finishes(tr, c) ==
  {i \in 1..Len(tr) : tr[i].k = "onFinishChange" /\ tr[i].c = c}

Latest(S) == CHOOSE i \in S : \A j \in S : j <= i

C15_OrderOfEffects ==
  \A i \in Idx :
    trace[i].k = "onFinishChange" =>
      /\ trace[i].a = obj
      /\ i > 1
      /\ trace[i - 1].k = "commit"
      /\ trace[i - 1].c = trace[i].c
      /\ i < Len(trace)
      /\ trace[i + 1] = Eff("notify", trace[i].c, trace[i].c, TheObject,
                            Undefined, <<>>)

C15_OneNotificationEach ==
  \A c \in Controllers :
    EventIs({"focus", "blur", "enter", "mouseup"}) =>
      Count("notify", c) = Count("onFinishChange", c)

C15_BaselineAndDisplay ==
  \A c \in Controllers :
    Finishes(trace, c) # {} =>
      LET newValue == trace[Latest(Finishes(trace, c))].a
      IN /\ ctl[c].initialValue = newValue
         /\ ctl[c].phase = "mounted" =>
              ctl[c].value = GetFinalValueString(ctl[c].precision, newValue)

C15_OldValueChain ==
  \A c \in Controllers :
    /\ \A i \in Finishes(trace', c) :
         LET before == {j \in Finishes(trace', c) : j < i}
         IN trace'[i].b = IF before = {} THEN ctl[c].initialValue
                          ELSE trace'[Latest(before)].a
    /\ (ctl[c].phase # "none" /\ ctl'[c].initialValue # ctl[c].initialValue)
         => Finishes(trace', c) # {}

C15_CommitOrder ==
  /\ []C15_OrderOfEffects
  /\ []C15_OneNotificationEach
  /\ []C15_BaselineAndDisplay
  /\ [][C15_OldValueChain]_vars

\* A second changed commit: its oldValue is the newValue of the first, not
\* the value at construction.
C15_Witness ==
  /\ EventIs({"blur"})
  /\ ctl["A"].phase = "mounted"
  /\ \E i \in Idx : /\ trace[i].k = "onFinishChange"
                    /\ trace[i].c = "A"
                    /\ trace[i].a = Lo
                    /\ trace[i].b = Hi
  /\ ctl["A"].initialValue = Lo
  /\ ctl["A"].value = <<"4", "9">>

(***************************************************************************)
(* C16.  Display asymmetry of a live edit.  Typed text that parses to a    *)
(* number is displayed exactly as typed, also when the value written was   *)
(* clamped to another number; a slider tick or a drag move displays the    *)
(* clamped value rounded to the precision of the controller.               *)
(***************************************************************************)
\* x rounded to p decimals, halves upwards, as the specification words it.
RoundedTo(x, p) ==
  IF ~IsNum(x) THEN x
  ELSE LET unit == Scale \div Pow10(p)
       IN Num(((2 * x.v + unit) \div (2 * unit)) * unit)

ParsedBy(tr, c) == {i \in 1..Len(tr) : tr[i].k = "parsed" /\ tr[i].c = c}

C16_TypedShownAsTyped ==
  (EventIs({"typed"}) /\ IsNum(ParseFloat(trace[1].s))) =>
    /\ ctl[trace[1].c].value = trace[1].s
    /\ \A i \in Idx : trace[i].k = "onChange" => trace[i].s = trace[1].s

C16_GestureShownRounded ==
  EventIs({"slider", "mousemove"}) =>
    \A c \in Controllers :
      /\ \A i \in ParsedBy(trace, c) :
           LET clamped == ClampToProps(ctl[c].props.min, ctl[c].props.max, trace[i].a)
           IN /\ i + 2 <= Len(trace)
              /\ trace[i + 2].k = "onChange"
              /\ trace[i + 2].s = NumberToString(RoundedTo(clamped, ctl[c].precision))
      /\ (ParsedBy(trace, c) # {} /\ ctl[c].phase = "mounted") =>
           ctl[c].value = trace[Latest(ParsedBy(trace, c)) + 2].s

C16_DisplayAsymmetry == C16_TypedShownAsTyped /\ C16_GestureShownRounded

\* The user typed 80 into a field bounded by 49 and 51: 51 was written, 80 is
\* displayed.
C16_Witness ==
  /\ EventIs({"typed"})
  /\ trace[1].s = <<"8", "0">>
  /\ HasBounds(trace[1].c)
  /\ obj = Hi
  /\ ctl[trace[1].c].value = <<"8", "0">>

(***************************************************************************)
(* C17.  The arithmetic of a drag.  A pointer move at position p makes the *)
(* listener of a controller compute object[property] + (anchor - p) *      *)
(* impliedStep from the value the property holds at that moment, and then  *)
(* sets the anchor to p: moving up (a smaller p) increases the value.      *)
(* While nothing clamps and nobody else writes, object[property] +         *)
(* anchor * impliedStep is therefore the same before and after every move, *)
(* so the total change of a drag is (anchor at pointer-down - last         *)
(* position) * impliedStep whatever the positions in between.              *)
(***************************************************************************)
WritesBefore(tr, i) == {j \in 1..(i - 1) : tr[j].k = "write"}

C17_MoveArithmetic ==
  (EventIs({"mousemove"})' /\ IsNum(obj)) =>
    LET p == trace'[1].a.v
    IN \A c \in Controllers :
         /\ \A i \in ParsedBy(trace', c) :
              LET earlier == {j \in ParsedBy(trace', c) : j < i}
                  anchor == IF earlier = {} THEN ctl[c].lastMousePosition ELSE p
                  held == IF WritesBefore(trace', i) = {} THEN obj
                          ELSE trace'[Latest(WritesBefore(trace', i))].a
                  step == ctl[c].impliedStep
              IN /\ trace'[i].a = Num(held.v + (anchor - p) * step.v)
                 /\ (p < anchor) => trace'[i].a.v > held.v
                 /\ (p > anchor) => trace'[i].a.v < held.v
         /\ ParsedBy(trace', c) # {} => ctl'[c].lastMousePosition = p

C17_DragTelescopes ==
  \A c \in Controllers :
    (/\ EventIs({"mousemove"})'
     /\ IsNum(obj)
     /\ ParsedBy(trace', c) # {}
     /\ \A i \in 1..Len(trace') : trace'[i].k \in {"parsed", "write"} => trace'[i].c = c
     /\ \A i \in ParsedBy(trace', c) : trace'[i + 1].a = trace'[i].a)
      => obj'.v + ctl'[c].lastMousePosition * ctl'[c].impliedStep.v
           = obj.v + ctl[c].lastMousePosition * ctl[c].impliedStep.v

C18_FixedAtConstruction ==
  \A c \in Controllers :
    ctl[c].phase # "none" =>
      /\ ctl'[c].precision = ctl[c].precision
      /\ ctl'[c].impliedStep = ctl[c].impliedStep
      /\ ctl'[c].phase # "none"

C18_PrecisionFixed == [][C18_FixedAtConstruction]_vars

\* Another writer stored 50.5 and the controller, built for whole numbers,
\* was told: it shows 51 and keeps its precision and its implied step.
C18_Witness ==
  /\ EventIs({"external"})
  /\ obj = Dec(50, 50)
  /\ ctl["A"].phase = "mounted"
  /\ \E i \in Idx : trace[i].k = "callback" /\ trace[i].c = "A"
  /\ ctl["A"].precision = 0
  /\ ctl["A"].impliedStep = Dec(1, 0)
  /\ ctl["A"].value = <<"5", "1">>

(***************************************************************************)
(* C19.  After a blur or Enter, a mounted controller with no drag in       *)
(* progress shows the display-rule rendering of object[property].          *)
(* Stated as claimed; the code breaks it: a commit that finds the value    *)
(* equal to the baseline returns before it refreshes the display, so a     *)
(* cleared field stays empty and a text that clamped back to the baseline  *)
(* stays as typed.                                                         *)
(***************************************************************************)
C19_IdleShowsRendering ==
  (/\ EventIs({"blur", "enter"})
   /\ ctl[trace[1].c].phase = "mounted"
   /\ ~Attached(trace[1].c))
    => ShowsRendering(trace[1].c)

====
